---- MODULE Spec2Model ----
(***************************************************************************)
(* Model of the PySD service of src/main.py: the process-wide `model` and  *)
(* `results` globals, the upload handler, the report handlers and the      *)
(* dependency-graph / feedback-loop analysis (graph build, nx.simple_cycles*)
(* and the even/odd loop typing).                                          *)
(*                                                                         *)
(* Variable identifiers are the integers 1, 2, 3 (read A, B, C); their     *)
(* numeric order stands for the lexicographic order of the identifier      *)
(* strings (dir() lists attribute names sorted).  Two specifications:      *)
(*   Spec      - the service with two requests in flight: the sync         *)
(*               handlers run in worker threads and the async upload       *)
(*               handler suspends at its await, so handlers interleave at  *)
(*               every read of the globals;                                *)
(*   SpecGraph - the graph pipeline run on a stable model drawn from every *)
(*               model over the three identifiers whose equations have at  *)
(*               most MaxOperands operands.                                *)
(***************************************************************************)
EXTENDS Integers, Sequences, FiniteSets, TLC

\* ------------------------------------------------------------------ bounds
MaxOperands == 2
MaxSims == 2

\* ------------------------------------------------------------- data model
\* identifiers that can name a component of model.components
Names == {1, 2, 3}

\* an equation operand that is not a str (a numeric literal)
Literal == 0

\* an attribute of model.components whose name starts with "_"
PrivateName == -1

Operands == Names \cup {Literal}

\* what `getattr(model.components, eqn).equation` gives: a list of operands,
\* a value that is not a list, or an exception
Equations ==
    {[kind |-> "raises", ops |-> {}], [kind |-> "other", ops |-> {}]}
    \cup {[kind |-> "list", ops |-> o] :
            o \in {s \in SUBSET Operands : Cardinality(s) <= MaxOperands}}

\* the global `model` before any upload and after the reset of upload_model
NoModel == [loaded |-> FALSE, comps |-> << >>]

LoadedModel(c) == [loaded |-> TRUE, comps |-> c]

AllModels == UNION {{LoadedModel(c) : c \in [S -> Equations]} : S \in SUBSET Names}

\* the global `results` when no simulation result is held
NoResults == 0

EmptyGraph == [nodes |-> {}, edges |-> {}]

Range(s) == {s[i] : i \in 1..Len(s)}

Last(s) == s[Len(s)]

RECURSIVE SortedSeq(_)
SortedSeq(S) ==
    IF S = {} THEN << >>
    ELSE LET m == CHOOSE x \in S : \A y \in S : x <= y
         IN  <<m>> \o SortedSeq(S \ {m})

\* ------------------------------------------------------------ graph build
\* dir(model.components): the attribute names, sorted, private ones included
DirOf(m) == SortedSeq({PrivateName} \cup DOMAIN m.comps)

IsPrivate(eqn) == eqn < 0

IsStr(var) == var # Literal

\* the edge drawn from the defined variable to its operand
AddEdge_Reversed(g, var, eqn) ==
    [nodes |-> g.nodes \cup {var, eqn}, edges |-> g.edges \cup {<<eqn, var>>}]

\* g.add_edge(var, eqn): both endpoints become nodes
AddEdge(g, var, eqn) ==
    [nodes |-> g.nodes \cup {var, eqn}, edges |-> g.edges \cup {<<var, eqn>>}]

RECURSIVE AddEdges(_, _, _)
AddEdges(g, vars, eqn) ==
    IF vars = << >> THEN g
    ELSE AddEdges(IF IsStr(Head(vars)) THEN AddEdge(g, Head(vars), eqn) ELSE g,
                  Tail(vars), eqn)

\* one iteration of `for eqn in dir(model.components)` against the value m
\* that the global `model` holds when the iteration reads it
VisitVar(g, m, eqn) ==
    IF IsPrivate(eqn) THEN g
    ELSE IF ~m.loaded \/ eqn \notin DOMAIN m.comps THEN g
    ELSE LET expr == m.comps[eqn]
         IN  IF expr.kind = "raises" THEN g
             ELSE IF expr.kind = "list" THEN AddEdges(g, SortedSeq(expr.ops), eqn)
             ELSE g

RECURSIVE BuildFrom(_, _, _)
BuildFrom(g, m, names) ==
    IF names = << >> THEN g
    ELSE BuildFrom(VisitVar(g, m, Head(names)), m, Tail(names))

\* the whole loop over a model that no upload replaces meanwhile
BuildGraph(m) == BuildFrom(EmptyGraph, m, DirOf(m))

\* -------------------------------------------------------- nx.simple_cycles
\* The iteration order of a Python set of strings: the library takes the
\* start node of each search from a set, so the order is any permutation.
Priorities == {p \in [Names -> Names] : \A a, b \in Names : p[a] = p[b] => a = b}

RECURSIVE OrderBy(_, _)
OrderBy(S, prio) ==
    IF S = {} THEN << >>
    ELSE LET m == CHOOSE x \in S : \A y \in S : prio[x] <= prio[y]
         IN  <<m>> \o OrderBy(S \ {m}, prio)

\* the self-loops, yielded first
SelfLoops(g) ==
    LET s == SortedSeq({v \in g.nodes : <<v, v>> \in g.edges})
    IN  [i \in 1..Len(s) |-> <<s[i]>>]

\* depth-first search of the elementary circuits of length >= 2 through
\* path[1] that stay inside `allowed`; cand are the successors left to try
RECURSIVE Search(_, _, _, _)
Search(g, allowed, path, cand) ==
    IF cand = << >> THEN << >>
    ELSE LET w == Head(cand)
             here ==
                 IF <<Last(path), w>> \notin g.edges THEN << >>
                 ELSE IF w = path[1]
                      THEN IF Len(path) >= 2 THEN <<path>> ELSE << >>
                 ELSE IF w \in allowed /\ w \notin Range(path)
                      THEN Search(g, allowed, Append(path, w), SortedSeq(allowed))
                 ELSE << >>
         IN  here \o Search(g, allowed, path, Tail(cand))

\* the searches from each start node in turn; a start node is removed from
\* the graph once its circuits are found
RECURSIVE SearchAll(_, _)
SearchAll(g, starts) ==
    IF starts = << >> THEN << >>
    ELSE LET allowed == Range(starts)
         IN  Search(g, allowed, <<Head(starts)>>, SortedSeq(allowed))
             \o SearchAll(g, Tail(starts))

SimpleCycles(g, prio) == SelfLoops(g) \o SearchAll(g, OrderBy(g.nodes, prio))

\* ---------------------------------------------------------------- responses
\* status: the HTTP status; detail: the detail of an HTTPException; keys: the
\* top-level keys of the payload; message, feedback_loops, loops: the values
\* under the keys of these names
Response(status, detail, keys, message, fl, loops) ==
    [status |-> status, detail |-> detail, keys |-> keys, message |-> message,
     feedback_loops |-> fl, loops |-> loops]

NoResponse == Response(0, "", {}, "", << >>, << >>)

Failure(status, detail) == Response(status, detail, {"detail"}, "", << >>, << >>)

NoModelLoaded == Failure(400, "No model loaded")

NoSimulationResults == Failure(400, "No simulation results available")

Message(text) == Response(200, "", {"message"}, text, << >>, << >>)

NoCausalLoops == Message("No causal loops detected in model.")

\* the parity test inverted
LoopType_Inverted(loop) == IF Len(loop) % 2 = 0 THEN "negative" ELSE "positive"

LoopType(loop) == IF Len(loop) % 2 = 0 THEN "positive" ELSE "negative"

\* identify_feedback_loops after the graph build
FeedbackLoopsOf(g, prio) ==
    LET loops == SimpleCycles(g, prio)
    IN  IF loops = << >> THEN NoCausalLoops
        ELSE Response(200, "", {"feedback_loops"}, "",
                      [i \in 1..Len(loops) |->
                          [loop |-> loops[i], type |-> LoopType(loops[i])]],
                      << >>)

\* generate_causal_loop_diagram after the graph build
CausalLoopsOf(g, prio) ==
    LET loops == SimpleCycles(g, prio)
    IN  IF loops = << >> THEN NoCausalLoops
        ELSE Response(200, "", {"loops"}, "", << >>, loops)

\* generate_stock_flow_diagram after the graph build
StockFlowOf(g) ==
    IF Cardinality(g.nodes) = 0
    THEN Message("No diagram structure could be inferred.")
    ELSE Response(200, "", {"image_base64", "message"},
                  "Stock & Flow diagram generated.",
                  << >>, << >>)

\* ------------------------------------------------------------------- state
\* the requests that can be in flight at the same time
Reqs == {"r1", "r2"}

ModelOps == {"generate_model_report", "identify_feedback_loops",
             "generate_sd_report", "convert_to_python",
             "generate_stock_flow_diagram", "generate_causal_loop_diagram"}

GraphOps == {"identify_feedback_loops", "generate_stock_flow_diagram",
             "generate_causal_loop_diagram"}

BodyOps == ModelOps \ GraphOps

ResultOps == {"simulation_summary", "visualize_results"}

\* extensions of the uploaded file names
Exts == {".mdl", ".MDL", ".xmile", ".txt"}

\* str.lower() on the extension
Lower(e) == IF e = ".MDL" THEN ".mdl" ELSE e

ListEq(ops) == [kind |-> "list", ops |-> ops]

\* {A: [B], B: [A]}
ScenarioA == LoadedModel(<<ListEq({2}), ListEq({1})>>)

\* {A: [B], B: [C], C: [A]}
ScenarioB == LoadedModel(<<ListEq({2}), ListEq({3}), ListEq({1})>>)

\* what pysd.read_vensim / pysd.read_xmile can return for the uploaded files
UploadModels == {ScenarioA, ScenarioB}

\* str(e) of the HTTPException raised in the try block (it depends on the
\* Starlette release whether the exception has a __str__)
StrOfUnsupported == {"", "400: Unsupported file format"}

VARIABLES
    model,      \* the global `model`
    results,    \* the global `results`: NoResults or the run that produced it
    simCount,   \* number of simulation runs so far
    pc,         \* per request: where its handler stands
    op,         \* per request: the handler it runs
    ext,        \* per upload request: the local `ext`
    names,      \* per analysis request: what is left of dir(model.components)
    g,          \* per analysis request: the local graph `g`
    seen,       \* per request: the values of `model` its reads returned
    resp,       \* per request: the response or the HTTP error it ended with
    resetAt     \* per upload request: simCount when it reset the globals

vars == <<model, results, simCount, pc, op, ext, names, g, seen, resp, resetAt>>

Idle ==
    /\ pc = [r \in Reqs |-> "idle"]
    /\ op = [r \in Reqs |-> ""]
    /\ ext = [r \in Reqs |-> ""]
    /\ names = [r \in Reqs |-> << >>]
    /\ g = [r \in Reqs |-> EmptyGraph]
    /\ seen = [r \in Reqs |-> {}]
    /\ resp = [r \in Reqs |-> NoResponse]
    /\ resetAt = [r \in Reqs |-> 0]

Init ==
    /\ model = NoModel
    /\ results = NoResults
    /\ simCount = 0
    /\ Idle

\* the request ends with response or error `out`
Finish(r, out) ==
    /\ pc' = [pc EXCEPT ![r] = "done"]
    /\ resp' = [resp EXCEPT ![r] = out]

\* -------------------------------------------------------------- upload_model
\* the reset of `results` left out
UploadStart_KeepsResults(r, e) ==
    /\ pc[r] = "idle"
    /\ model' = NoModel
    /\ op' = [op EXCEPT ![r] = "upload_model"]
    /\ ext' = [ext EXCEPT ![r] = Lower(e)]
    /\ pc' = [pc EXCEPT ![r] = "await"]
    /\ resetAt' = [resetAt EXCEPT ![r] = simCount]
    /\ UNCHANGED <<results, simCount, names, g, seen, resp>>

\* lines 20-25, up to the await of file.read()
UploadStart(r, e) ==
    /\ pc[r] = "idle"
    /\ model' = NoModel
    /\ results' = NoResults
    /\ op' = [op EXCEPT ![r] = "upload_model"]
    /\ ext' = [ext EXCEPT ![r] = Lower(e)]
    /\ pc' = [pc EXCEPT ![r] = "await"]
    /\ resetAt' = [resetAt EXCEPT ![r] = simCount]
    /\ UNCHANGED <<simCount, names, g, seen, resp>>

\* lines 25-36, after the await: the loader parses the file into m or raises
UploadLoad(r, m, loaderFails, str) ==
    /\ pc[r] = "await"
    /\ IF ext[r] \in {".mdl", ".xmile"}
       THEN IF loaderFails
            THEN /\ Finish(r, Failure(500, "loader error"))
                 /\ UNCHANGED model
            ELSE /\ model' = m
                 /\ Finish(r, Message("Model loaded successfully."))
       ELSE \* the HTTPException(400) is raised inside the try block and
            \* `except Exception` turns it into a 500
            /\ Finish(r, Failure(500, str))
            /\ UNCHANGED model
    /\ UNCHANGED <<results, simCount, op, ext, names, g, seen, resetAt>>

\* ------------------------------------------------- handlers guarded by model
\* the guard left out of convert_to_python
ModelCheck_Unguarded(r, o) ==
    /\ pc[r] = "idle"
    /\ o \in ModelOps
    /\ op' = [op EXCEPT ![r] = o]
    /\ seen' = [seen EXCEPT ![r] = {model}]
    /\ IF ~model.loaded /\ o # "convert_to_python"
       THEN Finish(r, NoModelLoaded)
       ELSE /\ pc' = [pc EXCEPT ![r] = IF o \in GraphOps THEN "dir" ELSE "body"]
            /\ UNCHANGED resp
    /\ UNCHANGED <<model, results, simCount, ext, names, g, resetAt>>

\* `if not model: raise HTTPException(400, "No model loaded")`, the first
\* statement of the six handlers of ModelOps (generate_sd_report reaches it
\* through its call of generate_model_report)
ModelCheck(r, o) ==
    /\ pc[r] = "idle"
    /\ o \in ModelOps
    /\ op' = [op EXCEPT ![r] = o]
    /\ seen' = [seen EXCEPT ![r] = {model}]
    /\ IF ~model.loaded
       THEN Finish(r, NoModelLoaded)
       ELSE /\ pc' = [pc EXCEPT ![r] = IF o \in GraphOps THEN "dir" ELSE "body"]
            /\ UNCHANGED resp
    /\ UNCHANGED <<model, results, simCount, ext, names, g, resetAt>>

\* generate_model_report, lines 43-57: the body reads model.components
ModelReportOf(m, libraryFails) ==
    IF ~m.loaded \/ libraryFails THEN Failure(500, "Error generating report")
    ELSE Response(200, "", {"stocks", "flows", "auxiliaries"}, "", << >>, << >>)

\* generate_sd_report, lines 108-119: simulation_summary is a local of the
\* function (line 109 assigns it), so calling it raises UnboundLocalError
SdReportOf(m, libraryFails) ==
    LET model_report == ModelReportOf(m, libraryFails)
    IN  IF model_report.status # 200 THEN model_report
        ELSE Failure(500, "Internal Server Error")

\* convert_to_python, lines 144-148
ConvertOf(m) ==
    IF ~m.loaded THEN Failure(500, "convert error")
    ELSE Response(200, "", {"file"}, "", << >>, << >>)

BodyOf(o, m, libraryFails) ==
    IF o = "generate_model_report" THEN ModelReportOf(m, libraryFails)
    ELSE IF o = "generate_sd_report" THEN SdReportOf(m, libraryFails)
    ELSE ConvertOf(m)

ModelBody(r, libraryFails) ==
    /\ pc[r] = "body"
    /\ op[r] \in BodyOps
    /\ seen' = [seen EXCEPT ![r] = @ \cup {model}]
    /\ Finish(r, BodyOf(op[r], model, libraryFails))
    /\ UNCHANGED <<model, results, simCount, op, ext, names, g, resetAt>>

\* ------------------------------------------------------ the graph handlers
GraphError(o) ==
    IF o = "identify_feedback_loops"
    THEN Failure(500, "Error identifying feedback loops")
    ELSE IF o = "generate_stock_flow_diagram" THEN Failure(500, "Diagram error")
    ELSE Failure(500, "Loop detection error")

\* `g = nx.DiGraph()` and the evaluation of dir(model.components)
GraphDir(r) ==
    /\ pc[r] = "dir"
    /\ seen' = [seen EXCEPT ![r] = @ \cup {model}]
    /\ IF ~model.loaded
       THEN /\ Finish(r, GraphError(op[r]))
            /\ UNCHANGED <<names, g>>
       ELSE /\ names' = [names EXCEPT ![r] = DirOf(model)]
            /\ g' = [g EXCEPT ![r] = EmptyGraph]
            /\ pc' = [pc EXCEPT ![r] = "iter"]
            /\ UNCHANGED resp
    /\ UNCHANGED <<model, results, simCount, op, ext, resetAt>>

\* one iteration of the loop: getattr(model.components, eqn) reads the global
GraphVisit(r) ==
    /\ pc[r] = "iter"
    /\ names[r] # << >>
    /\ seen' = [seen EXCEPT ![r] = @ \cup {model}]
    /\ g' = [g EXCEPT ![r] = VisitVar(@, model, Head(names[r]))]
    /\ names' = [names EXCEPT ![r] = Tail(@)]
    /\ UNCHANGED <<model, results, simCount, pc, op, ext, resp, resetAt>>

GraphResult(o, gr, prio) ==
    IF o = "identify_feedback_loops" THEN FeedbackLoopsOf(gr, prio)
    ELSE IF o = "generate_stock_flow_diagram" THEN StockFlowOf(gr)
    ELSE CausalLoopsOf(gr, prio)

\* the statements after the loop
GraphFinish(r, prio) ==
    /\ pc[r] = "iter"
    /\ names[r] = << >>
    /\ Finish(r, GraphResult(op[r], g[r], prio))
    /\ UNCHANGED <<model, results, simCount, op, ext, names, g, seen, resetAt>>

\* ---------------------------------------------- handlers guarded by results
ResultsCheck(r, o) ==
    /\ pc[r] = "idle"
    /\ o \in ResultOps
    /\ op' = [op EXCEPT ![r] = o]
    /\ IF results = NoResults
       THEN Finish(r, NoSimulationResults)
       ELSE /\ pc' = [pc EXCEPT ![r] = "body"]
            /\ UNCHANGED resp
    /\ UNCHANGED <<model, results, simCount, ext, names, g, seen, resetAt>>

\* simulation_summary, lines 65-74, and visualize_results, lines 127-137
ResultsOf(o, res, m, libraryFails) ==
    IF o = "simulation_summary"
    THEN IF res = NoResults \/ ~m.loaded \/ libraryFails
         THEN Failure(500, "Error generating simulation summary")
         ELSE Response(200, "", {"final_time", "stocks", "flows"}, "",
                       << >>, << >>)
    ELSE IF res = NoResults \/ libraryFails
         THEN Failure(500, "visualize error")
         ELSE Response(200, "", {"image_base64", "message"},
                       "Visualization generated.",
                       << >>, << >>)

ResultsBody(r, libraryFails) ==
    /\ pc[r] = "body"
    /\ op[r] \in ResultOps
    /\ Finish(r, ResultsOf(op[r], results, model, libraryFails))
    /\ UNCHANGED <<model, results, simCount, op, ext, names, g, seen, resetAt>>

\* ------------------------------------------------------------- environment
\* the Simulator collaborator hands the core the result of a run of the
\* loaded model
RunSimulation ==
    /\ model.loaded
    /\ simCount < MaxSims
    /\ simCount' = simCount + 1
    /\ results' = simCount + 1
    /\ UNCHANGED <<model, pc, op, ext, names, g, seen, resp, resetAt>>

\* the response is delivered and the request slot is free again
Return(r) ==
    /\ pc[r] = "done"
    /\ pc' = [pc EXCEPT ![r] = "idle"]
    /\ op' = [op EXCEPT ![r] = ""]
    /\ ext' = [ext EXCEPT ![r] = ""]
    /\ names' = [names EXCEPT ![r] = << >>]
    /\ g' = [g EXCEPT ![r] = EmptyGraph]
    /\ seen' = [seen EXCEPT ![r] = {}]
    /\ resp' = [resp EXCEPT ![r] = NoResponse]
    /\ resetAt' = [resetAt EXCEPT ![r] = 0]
    /\ UNCHANGED <<model, results, simCount>>

Next ==
    \/ \E r \in Reqs, e \in Exts : UploadStart(r, e)
    \/ \E r \in Reqs, m \in UploadModels, f \in BOOLEAN, s \in StrOfUnsupported :
          UploadLoad(r, m, f, s)
    \/ \E r \in Reqs, o \in ModelOps : ModelCheck(r, o)
    \/ \E r \in Reqs, f \in BOOLEAN : ModelBody(r, f)
    \/ \E r \in Reqs : GraphDir(r)
    \/ \E r \in Reqs : GraphVisit(r)
    \/ \E r \in Reqs, p \in Priorities : GraphFinish(r, p)
    \/ \E r \in Reqs, o \in ResultOps : ResultsCheck(r, o)
    \/ \E r \in Reqs, f \in BOOLEAN : ResultsBody(r, f)
    \/ RunSimulation
    \/ \E r \in Reqs : Return(r)

Spec == Init /\ [][Next]_vars

\* ------------------------------------------- the pipeline on a stable model
InitGraph ==
    /\ model \in AllModels
    /\ results = NoResults
    /\ simCount = 0
    /\ Idle

\* a graph handler run from its first to its last statement while no other
\* request is in flight
Analyse(r, o, prio) ==
    /\ pc[r] = "idle"
    /\ \A q \in Reqs : pc[q] = "idle"
    /\ o \in GraphOps
    /\ model.loaded
    /\ op' = [op EXCEPT ![r] = o]
    /\ seen' = [seen EXCEPT ![r] = {model}]
    /\ g' = [g EXCEPT ![r] = BuildGraph(model)]
    /\ Finish(r, GraphResult(o, BuildGraph(model), prio))
    /\ UNCHANGED <<model, results, simCount, ext, names, resetAt>>

NextGraph ==
    \/ \E o \in GraphOps, p \in Priorities : Analyse("r1", o, p)
    \/ Return("r1")

SpecGraph == InitGraph /\ [][NextGraph]_vars

\* ================================================================== claims
\* the loops a response carries, typed or not
LoopsIn(rsp) ==
    Range(rsp.loops) \cup {rsp.feedback_loops[i].loop : i \in DOMAIN rsp.feedback_loops}

\* var is a str operand of the list equation of eqn in model m
References(m, var, eqn) ==
    /\ eqn \in DOMAIN m.comps
    /\ m.comps[eqn].kind = "list"
    /\ var \in m.comps[eqn].ops
    /\ IsStr(var)

\* r ran a graph handler to its end and every read of `model` returned the
\* value the global still holds
StableAnalysis(r) ==
    /\ pc[r] = "done"
    /\ op[r] \in GraphOps
    /\ model.loaded
    /\ seen[r] = {model}

\* C1: with a model loaded and no simulation result, generate_sd_report
\* succeeds with the model-structure and feedback-loop sections and without
\* the simulation section.
C1_SdReportOmitsSimulation ==
    \A r \in Reqs :
        (/\ pc[r] = "done"
         /\ op[r] = "generate_sd_report"
         /\ model.loaded
         /\ seen[r] = {model}
         /\ results = NoResults)
        => /\ resp[r].status = 200
           /\ resp[r].keys = {"model_structure", "feedback_loops"}

\* C2: a handler that needs a model, invoked in a state where no model is
\* loaded, ends at once with the 400 "No model loaded" failure.
C2_NoModelFailsFast ==
    [][\A r \in Reqs :
          (pc[r] = "idle" /\ ~model.loaded /\ op'[r] \in ModelOps)
          => (pc'[r] = "done" /\ resp'[r] = NoModelLoaded)]_vars

W_C2_NoModelFailsFast ==
    \E r, q \in Reqs :
        /\ pc[q] = "done" /\ op[q] = "upload_model" /\ resp[q].status = 500
        /\ pc[r] = "done" /\ op[r] = "generate_sd_report"
        /\ resp[r] = NoModelLoaded

\* C3: every read of `model` that one graph analysis makes, from its guard to
\* the end of its graph build, returns the same model value.
C3_AnalysisSeesOneModel ==
    \A r \in Reqs : op[r] \in GraphOps => Cardinality(seen[r]) <= 1

C6_LoopsAreElementary ==
    \A r \in Reqs :
        \A loop \in LoopsIn(resp[r]) :
            /\ \A i, j \in 1..Len(loop) : i # j => loop[i] # loop[j]
            /\ \A i \in 1..Len(loop) :
                  LET a == loop[i]
                      b == loop[(i % Len(loop)) + 1]
                  IN  /\ <<a, b>> \in g[r].edges
                      /\ StableAnalysis(r) => References(model, a, b)

W_C6_LoopsAreElementary ==
    \E r \in Reqs :
        /\ StableAnalysis(r)
        /\ op[r] = "generate_causal_loop_diagram"
        /\ \E l \in Range(resp[r].loops) : Len(l) = 3
        /\ \E l \in Range(resp[r].loops) : Len(l) = 2

\* C7: every reported loop starts with its smallest identifier.
C7_CanonicalRotation ==
    \A r \in Reqs :
        \A loop \in LoopsIn(resp[r]) : \A v \in Range(loop) : loop[1] <= v

\* C8: the nodes of the graph built from a model are exactly the identifiers
\* of the model's variables.
C8_NodesAreVariables ==
    \A r \in Reqs :
        StableAnalysis(r) => g[r].nodes = DOMAIN model.comps

\* the model with each unreadable equation replaced by a readable one that
\* references nothing
Readable(m) ==
    [m EXCEPT !.comps =
        [v \in DOMAIN m.comps |->
            IF m.comps[v].kind = "raises" THEN [kind |-> "other", ops |-> {}]
            ELSE m.comps[v]]]

\* C9: when a variable's equation cannot be read the request still succeeds,
\* the graph has the edges of every readable variable, and the outcome lets
\* the caller tell that a variable was skipped: it differs from every outcome
\* of the same model with that equation readable.
C9_SkipIsRecorded ==
    \A r \in Reqs :
        (/\ StableAnalysis(r)
         /\ \E v \in DOMAIN model.comps : model.comps[v].kind = "raises")
        => /\ resp[r].status = 200
           /\ \A a, b \in Names : References(model, a, b) => <<a, b>> \in g[r].edges
           /\ \A p \in Priorities :
                 resp[r] # GraphResult(op[r], BuildGraph(Readable(model)), p)

\* C10: an upload whose extension is neither .mdl nor .xmile ends with
\* status 400 "Unsupported file format", and status 500 is returned only for
\* a supported extension.
C10_UnsupportedIs400 ==
    \A r \in Reqs :
        (pc[r] = "done" /\ op[r] = "upload_model")
        => /\ ext[r] \notin {".mdl", ".xmile"}
              => resp[r] = Failure(400, "Unsupported file format")
           /\ resp[r].status = 500 => ext[r] \in {".mdl", ".xmile"}

====
